---------------------------- MODULE Spec2Model ----------------------------
(***************************************************************************)
(* A model of src/app.py, the Streamlit "Forensic Video QA Auditor".       *)
(*                                                                         *)
(* One run of the page script started by the "Run Forensic Audit" button   *)
(* is modelled step by step, with one action per call to the outside       *)
(* world (staging the bytes on disk, the remote upload, one poll, the      *)
(* inference call, the remote delete).  Everything the script does between *)
(* two such calls, up to and including the "Display Data" block that ends  *)
(* every script run, belongs to the action of the call before it.          *)
(*                                                                         *)
(* Prompt construction (run_audit, lines 93 and 105-144) is a pure         *)
(* function of the script text; it is checked under SpecPrompt.            *)
(***************************************************************************)
EXTENDS Integers, Sequences, FiniteSets, TLC

VARIABLES
    API_KEY,       \* st.secrets["GEMINI_API_KEY"] (line 26)
    pc,            \* position of the page script / phase of the current run
    runs,          \* number of runs started in this session
    audit_df,      \* st.session_state.audit_df (lines 214-215, 230)
    disk,          \* names of the temporary files that exist on local disk
    tfile,         \* tfile.name of the current run (line 59), or None
    gemini_file,   \* local gemini_file of upload_to_gemini (lines 65, 71)
    gemini_video,  \* what upload_to_gemini returned (line 222)
    remote,        \* names of the files the remote service currently stores
    procSeen,      \* how many times the remote reported PROCESSING this run
    waits,         \* time.sleep(2) calls of this run (line 70)
    fetches,       \* genai.get_file calls of this run (line 71)
    inferCalls,    \* model.generate_content calls of this run (line 147)
    response,      \* the model response of this run, or None
    failure,       \* where this run's error came from and the exception
    wrote,         \* this run assigned st.session_state.audit_df (line 230)
    messages,      \* st.error / st.warning / st.success boxes of this run
    page,          \* what the "Audit Results" column shows (lines 246-281)
    script,        \* script_content given to run_audit
    prompt,        \* the prompt run_audit rendered
    ppc            \* position of the prompt construction

vars == <<API_KEY, pc, runs, audit_df, disk, tfile, gemini_file, gemini_video,
          remote, procSeen, waits, fetches, inferCalls, response, failure,
          wrote, messages, page, script, prompt, ppc>>

runVars == <<API_KEY, pc, runs, audit_df, disk, tfile, gemini_file,
             gemini_video, remote, procSeen, waits, fetches, inferCalls,
             response, failure, wrote, messages, page>>

promptVars == <<script, prompt, ppc>>

\* Bounds of the model.
MaxRuns == 2
MaxPolls == 3
MaxPad == 2
MaxCore == 12

None == "None"
NaN == "NaN"

-----------------------------------------------------------------------------
(* The remote service and the exceptions its calls raise.                  *)

FileStates == {"PROCESSING", "ACTIVE", "FAILED"}

\* str(e) of an exception, and which of the substrings "429" and "404" the
\* text holds (lines 240 and 242 test for them).
Exc(type, text, codes) == [type |-> type, text |-> text, codes |-> codes]

TransportError == Exc("ServiceUnavailable", "503 failed to connect", {})

InferenceErrors ==
    { Exc("ResourceExhausted", "429 Resource has been exhausted", {"429"}),
      Exc("NotFound", "404 models/x is not found", {"404"}),
      Exc("DeadlineExceeded", "504 Deadline Exceeded", {}) }

DeleteErrors ==
    { Exc("ResourceExhausted", "429 Resource has been exhausted", {"429"}),
      Exc("NotFound", "404 File not found", {"404"}),
      Exc("PermissionDenied", "403 permission denied", {}) }

StagingError == Exc("OSError", "[Errno 28] No space left on device", {})

FrameError == Exc("ValueError", "DataFrame constructor not properly called!", {})

KeyErrorSeverity == Exc("KeyError", "['severity'] not in index", {})

-----------------------------------------------------------------------------
(* Model responses: the text, and what json.loads makes of it.  A JSON     *)
(* object is the sequence of its <<key, value>> members in text order.     *)

ExpectedFields ==
    <<"timestamp", "severity", "category", "issue_description", "suggested_fix">>

Issue(ts, sev) ==
    << <<"timestamp", ts>>, <<"severity", sev>>, <<"category", "Fact">>,
       <<"issue_description", "Wrong GST rate stated">>,
       <<"suggested_fix", "Correct to 18%">> >>

\* "No exception": the call returned.
NoExc == Exc(None, "", {})

Parsed(text, items) ==
    [text |-> text, json |-> [kind |-> "array", items |-> items], error |-> NoExc]

NotJson == [kind |-> "invalid", items |-> <<>>]

Responses ==
    { \* not JSON at all
      [text |-> "I could not analyse this video.", json |-> NotJson,
       error |-> Exc("JSONDecodeError",
                     "Expecting value: line 1 column 1 (char 0)", {})],
      \* a JSON text cut off inside a string that starts at character 429
      [text |-> "[{\"timestamp\": \"00:05\", ...", json |-> NotJson,
       error |-> Exc("JSONDecodeError",
                     "Unterminated string starting at: line 1 column 430 (char 429)",
                     {"429"})],
      \* valid JSON that is not an array of objects
      [text |-> "42", json |-> [kind |-> "number", items |-> <<>>], error |-> NoExc],
      Parsed("[]", <<>>),
      Parsed("[issue]", << Issue("00:05", "Critical") >>),
      Parsed("[issue, issue]", << Issue("00:05", "MAJOR"), Issue("00:05", "MAJOR") >>),
      Parsed("[issue, later issue]", << Issue("00:05", "minor"), Issue("00:09", "Pass") >>),
      Parsed("[severity first]",
             << << <<"severity", "Minor">>, <<"timestamp", "00:07">> >> >>),
      Parsed("[with confidence]",
             << Issue("00:05", "Critical") \o << <<"confidence", "0.9">> >> >>),
      Parsed("[no severity]",
             << << <<"timestamp", "00:05">>, <<"category", "Audio">> >> >>) }

NoResponse == [text |-> None, json |-> NotJson, error |-> NoExc]

\* json.loads (line 229): the parsed value, or the JSONDecodeError it raises.
json_loads(resp) == [value |-> resp.json, error |-> resp.error]

-----------------------------------------------------------------------------
(* pandas.DataFrame(data) (line 230) for a list of dicts: the columns are   *)
(* the keys in order of first appearance over the whole list, one row per  *)
(* dict, NaN where a dict lacks a key.                                     *)

NoFrame == [exists |-> FALSE, columns |-> <<>>, rows |-> <<>>]

Keys(obj) == [i \in 1..Len(obj) |-> obj[i][1]]

InSeq(x, s) == \E i \in 1..Len(s) : s[i] = x

RECURSIVE AppendNew(_, _)
AppendNew(cols, keys) ==
    IF keys = <<>> THEN cols
    ELSE AppendNew(IF InSeq(Head(keys), cols) THEN cols
                   ELSE Append(cols, Head(keys)),
                   Tail(keys))

RECURSIVE UnionColumns(_, _)
UnionColumns(cols, items) ==
    IF items = <<>> THEN cols
    ELSE UnionColumns(AppendNew(cols, Keys(Head(items))), Tail(items))

\* dict lookup: the last member with that key wins, NaN when there is none.
Lookup(obj, key) ==
    IF \E i \in 1..Len(obj) : obj[i][1] = key
    THEN obj[CHOOSE i \in 1..Len(obj) :
                 /\ obj[i][1] = key
                 /\ \A j \in (i+1)..Len(obj) : obj[j][1] # key][2]
    ELSE NaN

DataFrame(items) ==
    LET cols == UnionColumns(<<>>, items)
    IN  [exists |-> TRUE,
         columns |-> cols,
         rows |-> [i \in 1..Len(items) |->
                      [j \in 1..Len(cols) |-> Lookup(items[i], cols[j])]]]

\* DataFrame.empty: some axis has length 0.
IsEmpty(df) == Len(df.rows) = 0 \/ Len(df.columns) = 0

-----------------------------------------------------------------------------
(* The "Display Data" block (lines 246-281).                               *)

\* color_severity (lines 250-259) on the severities the responses use:
\* str(val).lower() holding "critical", "major" or "minor".
color_severity(val) ==
    CASE val \in {"Critical", "CRITICAL", "critical"} ->
             "background-color: #ffb3b3; color: black; font-weight: bold;"
      [] val \in {"Major", "MAJOR", "major"} ->
             "background-color: #fff4cc; color: black;"
      [] val \in {"Minor", "MINOR", "minor"} -> "color: gray;"
      [] OTHER -> ""

ColumnIndex(df, name) == CHOOSE j \in 1..Len(df.columns) : df.columns[j] = name

\* df.to_csv(index=False) (line 275): the header line, then one line per
\* row, a missing value written as the empty field.
to_csv(df) ==
    <<df.columns>> \o
    [i \in 1..Len(df.rows) |->
        [j \in 1..Len(df.columns) |->
            IF df.rows[i][j] = NaN THEN "" ELSE df.rows[i][j]]]

Page(kind, columns, rows, styles, csv) ==
    [kind |-> kind, columns |-> columns, rows |-> rows, styles |-> styles,
     csv |-> csv]

RunningPage == Page("running", <<>>, <<>>, <<>>, <<>>)

\* An exception nothing catches ends the script run: Streamlit shows the
\* exception and runs no later line.
ExceptionPage == Page("exception", <<>>, <<>>, <<>>, <<>>)

\* Lines 246-281.  column_config (lines 264-270) only relabels columns;
\* the table shows every column of the frame in the frame's order.
\* Styling with subset=['severity'] raises KeyError when the frame has no
\* such column.
Render(df) ==
    IF df.exists /\ ~IsEmpty(df)
    THEN IF ~InSeq("severity", df.columns)
         THEN ExceptionPage
         ELSE Page("table", df.columns, df.rows,
                   [i \in 1..Len(df.rows) |->
                       color_severity(df.rows[i][ColumnIndex(df, "severity")])],
                   to_csv(df))
    ELSE IF df.exists
         THEN Page("clean", <<>>, <<>>, <<>>, <<>>)
         ELSE Page("waiting", <<>>, <<>>, <<>>, <<>>)

-----------------------------------------------------------------------------
(* Messages and the except block of the run handler (lines 236-243).       *)

Msg(kind, arg) == [kind |-> kind, arg |-> arg]

ErrorKinds == {"ApiKeyMissing", "ProcessingFailed", "UploadFailed",
               "AnalysisError", "RateLimit", "ModelNotFound"}

\* Lines 237-243.
AnalysisMessages(e) ==
    {Msg("AnalysisError", e.text)} \cup
    (IF "429" \in e.codes THEN {Msg("RateLimit", "")}
     ELSE IF "404" \in e.codes THEN {Msg("ModelNotFound", "")}
     ELSE {})

NoFailure == [origin |-> None, exc |-> NoExc]
Failure(origin, e) == [origin |-> origin, exc |-> e]

NoFile == [name |-> 0, state |-> None]

\* The loop condition written as "until ACTIVE".
PollContinues_UntilActive(state) == state # "ACTIVE"

\* Line 69: the loop condition.
PollContinues(state) == state = "PROCESSING"

\* The result without the test of lines 76-78.
UploadResult_NoFailedTest(file) == file

\* Lines 76-80: what upload_to_gemini returns once the loop has ended.
UploadResult(file) == IF file.state = "FAILED" THEN NoFile ELSE file

\* Line 224: a returned handle is truthy, None is not.
Truthy(file) == file # NoFile

\* The script run ends: the Display Data block renders the slot.
EndRun(df, msgs) ==
    /\ messages' = msgs
    /\ page' = Render(df)
    /\ pc' = IF (\E m \in msgs : m.kind \in ErrorKinds)
                \/ Render(df).kind = "exception"
             THEN "Failed" ELSE "Rendered"

-----------------------------------------------------------------------------
(* Prompt construction in run_audit (lines 93 and 105-144).  A text is the *)
(* sequence of its characters.  Of the fixed text of the f-string, the     *)
(* line that holds the script slot (line 112) and the line after it (line  *)
(* 113) are modelled; the rest is fixed text before and after them.        *)

\* Line 93: the length a stripped script must exceed.
MinScriptLen == 10

Whitespace == {" ", "\n", "\t", "\r"}

\* The text put in place of a missing script (line 93).
Marker ==
    <<
       "N", "O", "T", " ", "P", "R", "O", "V", "I", "D", "E", "D", " ", "(",
       "P", "e", "r", "f", "o", "r", "m", " ", "B", "l", "i", "n", "d", " ",
       "A", "u", "d", "i", "t", " ", "b", "a", "s", "e", "d", " ", "o", "n",
       " ", "v", "i", "s", "u", "a", "l", "/", "a", "u", "d", "i", "o", " ",
       "l", "o", "g", "i", "c", ")" >>

\* Line 112 up to the slot.
PromptPrefix ==
    <<
       " ", " ", " ", " ", "-", " ", "T", "h", "e", " ", "A", "p", "p", "r",
       "o", "v", "e", "d", " ", "S", "c", "r", "i", "p", "t", ":", " " >>

\* From the slot to the end of line 113.
PromptSuffix ==
    <<
       "\n", " ", " ", " ", " ", "-", " ", "K", "e", "y", " ", "F", "a", "c",
       "t", "s", "/", "D", "a", "t", "a", ":", " ", "G", "e", "n", "e", "r",
       "a", "l", " ", "I", "n", "d", "i", "a", "n", " ", "C", "o", "n", "t",
       "e", "x", "t", " ", "(", "U", "s", "e", " ", "r", "e", "a", "l", "-",
       "w", "o", "r", "l", "d", " ", "I", "n", "d", "i", "a", "n", " ", "G",
       "S", "T", " ", "L", "a", "w", "s", ",", " ", "T", "a", "x", " ", "S",
       "l", "a", "b", "s", ",", " ", "a", "n", "d", " ", "I", "C", "M", "R",
       " ", "G", "u", "i", "d", "e", "l", "i", "n", "e", "s", ")", ".", "\n" >>

\* str.strip(): leading and trailing whitespace removed.
RECURSIVE LStrip(_)
LStrip(s) == IF s # <<>> /\ Head(s) \in Whitespace THEN LStrip(Tail(s)) ELSE s

RECURSIVE RStrip(_)
RStrip(s) ==
    IF s # <<>> /\ s[Len(s)] \in Whitespace
    THEN RStrip(SubSeq(s, 1, Len(s) - 1)) ELSE s

Strip(s) == RStrip(LStrip(s))

\* The test of line 93 without strip().
ScriptTextToInject_NoStrip(script_content) ==
    IF script_content # <<>> /\ Len(script_content) > MinScriptLen
    THEN script_content
    ELSE Marker

\* Line 93: an empty script is falsy.
ScriptTextToInject(script_content) ==
    IF script_content # <<>> /\ Len(Strip(script_content)) > MinScriptLen
    THEN script_content
    ELSE Marker

\* Lines 105-144: the f-string with the slot filled.
RenderPrompt(script_content) ==
    PromptPrefix \o ScriptTextToInject(script_content) \o PromptSuffix

\* `needle` occurs in `hay` as a contiguous piece.
Contains(hay, needle) ==
    \E i \in 0..(Len(hay) - Len(needle)) :
        \A j \in 1..Len(needle) : hay[i + j] = needle[j]

-----------------------------------------------------------------------------
(* The run handler (lines 217-243) and upload_to_gemini (lines 55-87).     *)

Resting == {"Idle", "Rendered", "Failed"}

\* The finally block (lines 85-87).
Unlink(files, name) == files \ {name}

\* The button is pressed (line 217).  Line 218 ends the run at once when the
\* key is empty; otherwise upload_to_gemini is entered (line 222).
StartAudit ==
    /\ pc \in Resting
    /\ runs < MaxRuns
    /\ runs' = runs + 1
    /\ tfile' = 0
    /\ gemini_file' = NoFile
    /\ gemini_video' = NoFile
    /\ procSeen' = 0
    /\ waits' = 0
    /\ fetches' = 0
    /\ inferCalls' = 0
    /\ response' = NoResponse
    /\ wrote' = FALSE
    /\ IF API_KEY = ""
       THEN /\ failure' = Failure("config", NoExc)
            /\ EndRun(audit_df, {Msg("ApiKeyMissing", "")})
       ELSE /\ failure' = NoFailure
            /\ messages' = {}
            /\ page' = RunningPage
            /\ pc' = "Staging"
    /\ UNCHANGED promptVars
    /\ UNCHANGED <<API_KEY, audit_df, disk, remote>>

\* Lines 59-61: the temporary file is created, then the bytes of the blob
\* are read and written to it.  These lines stand before the try block, so
\* an exception of read() or write() leaves upload_to_gemini and the script.
Stage(ok) ==
    /\ pc = "Staging"
    /\ tfile' = runs
    /\ disk' = disk \cup {runs}
    /\ IF ok
       THEN /\ pc' = "Uploading"
            /\ UNCHANGED <<failure, page>>
       ELSE /\ failure' = Failure("staging", StagingError)
            /\ page' = ExceptionPage
            /\ pc' = "Failed"
    /\ UNCHANGED promptVars
    /\ UNCHANGED <<API_KEY, runs, audit_df, gemini_file, gemini_video, remote,
                   procSeen, waits, fetches, inferCalls, response, wrote,
                   messages>>

\* Lines 82-87 and 224, 246-281: an exception of the upload or of a poll.
UploadRaises(origin, e) ==
    /\ failure' = Failure(origin, e)
    /\ gemini_video' = NoFile
    /\ disk' = Unlink(disk, tfile)
    /\ EndRun(audit_df, messages \cup {Msg("UploadFailed", e.text)})
    /\ UNCHANGED <<gemini_file, remote, procSeen>>

\* The remote reported `state` for the file (lines 65 and 71): the loop of
\* line 69 goes on, or upload_to_gemini returns (lines 74-87) and the
\* handler tests what it returned (line 224).
Observed(name, state) ==
    LET file == [name |-> name, state |-> state]
    IN  /\ gemini_file' = file
        /\ procSeen' = procSeen + (IF state = "PROCESSING" THEN 1 ELSE 0)
        /\ IF PollContinues(state)
           THEN /\ pc' = "Polling"
                /\ UNCHANGED <<gemini_video, disk, failure, messages, page>>
           ELSE /\ gemini_video' = UploadResult(file)
                /\ disk' = Unlink(disk, tfile)
                /\ IF Truthy(UploadResult(file))
                   THEN /\ pc' = "Requesting"
                        /\ UNCHANGED <<failure, messages, page>>
                   ELSE /\ failure' = Failure("processing", NoExc)
                        /\ EndRun(audit_df,
                                  messages \cup {Msg("ProcessingFailed", "")})

\* What the remote may answer: PROCESSING at most MaxPolls times a run.
Reportable == {s \in FileStates : s = "PROCESSING" => procSeen < MaxPolls}

\* Line 65: genai.upload_file.
Upload ==
    /\ pc = "Uploading"
    /\ \/ /\ UploadRaises("upload", TransportError)
       \/ \E s \in Reportable :
             /\ remote' = remote \cup {runs}
             /\ Observed(runs, s)
    /\ UNCHANGED promptVars
    /\ UNCHANGED <<API_KEY, runs, audit_df, tfile, waits, fetches, inferCalls,
                   response, wrote>>

\* Lines 69-72: one turn of the loop, time.sleep(2) and genai.get_file.
Poll ==
    /\ pc = "Polling"
    /\ PollContinues(gemini_file.state)
    /\ waits' = waits + 1
    /\ fetches' = fetches + 1
    /\ \/ UploadRaises("poll", TransportError)
       \/ \E s \in Reportable :
             /\ Observed(gemini_file.name, s)
             /\ UNCHANGED remote
    /\ UNCHANGED promptVars
    /\ UNCHANGED <<API_KEY, runs, audit_df, tfile, inferCalls, response, wrote>>

\* Lines 236-243, then the Display Data block.
AnalysisFails(origin, e, df) ==
    /\ failure' = Failure(origin, e)
    /\ EndRun(df, messages \cup AnalysisMessages(e))

\* Lines 228-230: run_audit (one generate_content call, line 147), then
\* json.loads and pandas.DataFrame, then the assignment of the slot.
Request ==
    /\ pc = "Requesting"
    /\ inferCalls' = inferCalls + 1
    /\ \/ \E e \in InferenceErrors :
             /\ AnalysisFails("inference", e, audit_df)
             /\ UNCHANGED <<audit_df, response, wrote>>
       \/ \E r \in Responses :
             /\ response' = r
             /\ IF json_loads(r).error # NoExc
                THEN /\ AnalysisFails("parse", json_loads(r).error, audit_df)
                     /\ UNCHANGED <<audit_df, wrote>>
                ELSE IF json_loads(r).value.kind # "array"
                THEN /\ AnalysisFails("frame", FrameError, audit_df)
                     /\ UNCHANGED <<audit_df, wrote>>
                ELSE /\ audit_df' = DataFrame(json_loads(r).value.items)
                     /\ wrote' = TRUE
                     /\ pc' = "Deleting"
                     /\ UNCHANGED <<failure, messages, page>>
    /\ UNCHANGED promptVars
    /\ UNCHANGED <<API_KEY, runs, disk, tfile, gemini_file, gemini_video,
                   remote, procSeen, waits, fetches>>

\* Lines 233-234: genai.delete_file, then the success message.
Delete ==
    /\ pc = "Deleting"
    /\ \/ /\ remote' = remote \ {gemini_video.name}
          /\ EndRun(audit_df, messages \cup {Msg("AuditComplete", "")})
          /\ failure' = IF Render(audit_df).kind = "exception"
                        THEN Failure("render", KeyErrorSeverity)
                        ELSE failure
       \/ \E e \in DeleteErrors :
             /\ AnalysisFails("delete", e, audit_df)
             /\ UNCHANGED remote
    /\ UNCHANGED promptVars
    /\ UNCHANGED <<API_KEY, runs, audit_df, disk, tfile, gemini_file,
                   gemini_video, procSeen, waits, fetches, inferCalls,
                   response, wrote>>

\* Any other interaction with the page runs the script with start_audit
\* False: the messages of the run are gone, the slot is rendered again.
Rerun ==
    /\ pc \in {"Rendered", "Failed"}
    /\ messages' = {}
    /\ page' = Render(audit_df)
    /\ pc' = "Idle"
    /\ UNCHANGED promptVars
    /\ UNCHANGED <<API_KEY, runs, audit_df, disk, tfile, gemini_file,
                   gemini_video, remote, procSeen, waits, fetches, inferCalls,
                   response, failure, wrote>>

InitRun ==
    /\ API_KEY \in {"", "key"}
    /\ pc = "Idle"
    /\ runs = 0
    /\ audit_df = NoFrame
    /\ disk = {}
    /\ tfile = 0
    /\ gemini_file = NoFile
    /\ gemini_video = NoFile
    /\ remote = {}
    /\ procSeen = 0
    /\ waits = 0
    /\ fetches = 0
    /\ inferCalls = 0
    /\ response = NoResponse
    /\ failure = NoFailure
    /\ wrote = FALSE
    /\ messages = {}
    /\ page = Render(NoFrame)

Init ==
    /\ InitRun
    /\ script = <<>>
    /\ prompt = <<>>
    /\ ppc = "off"

Next ==
    \/ StartAudit
    \/ \E ok \in BOOLEAN : Stage(ok)
    \/ Upload
    \/ Poll
    \/ Request
    \/ Delete
    \/ Rerun

Spec == Init /\ [][Next]_vars

-----------------------------------------------------------------------------
(* Prompt construction on its own: every script of Scripts is rendered.    *)

Rep(c, n) == [i \in 1..n |-> c]

ScriptWord == <<"S", "c", "r", "i", "p", "t">>
BlindAudit == <<"B", "l", "i", "n", "d", " ", "A", "u", "d", "i", "t">>

Cores == {Rep("#", n) : n \in 0..MaxCore} \cup {ScriptWord, BlindAudit, Marker}

\* The script inputs: a core with up to MaxPad blanks before and after it.
Scripts ==
    {Rep(" ", l) \o core \o Rep(" ", r) :
        l \in 0..MaxPad, r \in 0..MaxPad, core \in Cores}

InitPrompt ==
    /\ InitRun
    /\ script \in Scripts
    /\ prompt = <<>>
    /\ ppc = "ready"

\* run_audit builds the prompt for the script it was given.
BuildPrompt ==
    /\ ppc = "ready"
    /\ prompt' = RenderPrompt(script)
    /\ ppc' = "built"
    /\ UNCHANGED script
    /\ UNCHANGED runVars

NextPrompt == BuildPrompt

SpecPrompt == InitPrompt /\ [][NextPrompt]_vars

-----------------------------------------------------------------------------
(* The claims.                                                             *)

\* upload_to_gemini is on the stack.
InUpload == pc \in {"Staging", "Uploading", "Polling"}

\* A run has ended and its messages are on the page.
RunEnded == pc \in {"Rendered", "Failed"}

MessageKinds == {m.kind : m \in messages}

\* An error box of this run is on the page.
ErrorShown == MessageKinds \cap ErrorKinds # {}

\* The run handler reported an error: an error box, or the exception that
\* left upload_to_gemini uncaught.
RunErrored == ErrorShown \/ failure.origin = "staging"

\* C1: whenever upload_to_gemini is not running, no temporary file that a
\* run created is left on disk, whichever way upload_to_gemini was left
\* (return or exception, staging included).
C1_TempFileRemoved == ~InUpload => disk = {}

\* C2: the handle reported PROCESSING k times (procSeen) and then ACTIVE:
\* exactly k waits and k re-fetches were made and the handle is returned;
\* FAILED ends the polling at once with None and no further wait; the loop
\* goes on only while the last state seen is PROCESSING.
C2_Polling ==
    /\ fetches = waits
    /\ gemini_file.state = "ACTIVE" =>
          /\ waits = procSeen
          /\ gemini_video = gemini_file
          /\ ~InUpload
    /\ gemini_file.state = "FAILED" =>
          /\ waits = procSeen
          /\ gemini_video = NoFile
          /\ pc \in {"Failed", "Idle"}
    /\ pc = "Polling" =>
          /\ gemini_file.state = "PROCESSING"
          /\ waits = procSeen - 1

C2_Witness ==
    /\ gemini_video.state = "ACTIVE"
    /\ procSeen = 2
    /\ waits = 2
    /\ pc = "Requesting"

\* C3: a run that has ended either shows no error and left its own parsed
\* rows in the slot, or shows an error and did not write the slot.
C3_AllOrNothing ==
    RunEnded =>
        \/ /\ ~RunErrored
           /\ wrote
           /\ audit_df = DataFrame(response.json.items)
        \/ /\ RunErrored
           /\ ~wrote

\* C4: after a run whose response was not valid JSON, an error box shows
\* the raw response text, the run did not write the slot, and the page
\* shows no result table.
C4_ParseFailure ==
    (RunEnded /\ failure.origin = "parse") =>
        /\ \E m \in messages : m.kind \in ErrorKinds /\ m.arg = response.text
        /\ ~wrote
        /\ page.kind # "table"

\* C5: once a run has ended, the remote service holds no file that a run
\* of this session uploaded.
C5_HandleDeleted == pc \in Resting => remote = {}

\* C6: the quota advice is shown exactly when the inference call was
\* rejected for quota, the model advice exactly when the model was not
\* found, never both, and the inference call is never repeated.
C6_Discriminates ==
    RunEnded =>
        /\ "RateLimit" \in MessageKinds <=>
              (failure.origin = "inference" /\ failure.exc.type = "ResourceExhausted")
        /\ "ModelNotFound" \in MessageKinds <=>
              (failure.origin = "inference" /\ failure.exc.type = "NotFound")
        /\ ~({"RateLimit", "ModelNotFound"} \subseteq MessageKinds)
        /\ inferCalls <= 1

\* C7: after a run whose response was the empty array the page shows the
\* clean-audit message; the waiting message is shown only while no run was
\* attempted; a run that ended in an error shows neither of the two.
C7_ThreeOutcomes ==
    pc \in Resting =>
        /\ (RunEnded /\ wrote /\ response.json.items = <<>>) => page.kind = "clean"
        /\ page.kind = "waiting" => runs = 0
        /\ (RunEnded /\ (ErrorShown \/ failure # NoFailure)) =>
              page.kind \notin {"clean", "waiting"}

\* The phases of a run in the order the handler passes them.
Rank(p) ==
    CASE p = "Staging" -> 1
      [] p = "Uploading" -> 2
      [] p = "Polling" -> 3
      [] p = "Requesting" -> 4
      [] p = "Deleting" -> 5
      [] OTHER -> 6

UploadFailures == {"config", "staging", "upload", "poll", "processing"}

C8_RunState ==
    /\ inferCalls <= 1
    /\ inferCalls = 1 => gemini_video.state = "ACTIVE"
    /\ pc = "Requesting" => (inferCalls = 0 /\ gemini_video.state = "ACTIVE")
    /\ pc = "Deleting" => inferCalls = 1
    /\ (RunEnded /\ failure.origin \notin UploadFailures) => inferCalls = 1
    /\ failure.origin \in UploadFailures => (inferCalls = 0 /\ ~wrote)
    /\ InUpload => (inferCalls = 0 /\ ~wrote)

C8_RunStep ==
    /\ pc' # pc =>
          \/ pc \in Resting /\ pc' \in {"Staging", "Failed", "Idle"}
          \/ pc \notin Resting /\ Rank(pc') > Rank(pc)
    /\ pc \notin Resting => runs' = runs
    /\ inferCalls' # inferCalls =>
          \/ pc = "Requesting" /\ inferCalls' = inferCalls + 1
          \/ pc \in Resting /\ inferCalls' = 0
    /\ audit_df' # audit_df => pc = "Requesting"

\* C8: a run passes Idle, Uploading, Polling, Requesting and ends Rendered
\* or Failed, never going back; the inference call is made exactly once in
\* a run that reaches Requesting, only with a handle last seen ACTIVE; a run
\* whose upload or polling failed makes no inference call and no write.
C8_OneRequest == []C8_RunState /\ [][C8_RunStep]_vars

C8_Witness ==
    /\ pc = "Rendered"
    /\ inferCalls = 1
    /\ waits = 1
    /\ wrote

\* C9 as stated: a script of trimmed length <= 10 gives a prompt that holds
\* the marker and not the script text; a longer one gives a prompt that
\* holds the script text and not the marker.  (For an empty or blank script
\* "not the script text" is read as saying nothing.)
C9_MarkerXorScript ==
    ppc = "built" =>
        IF Len(Strip(script)) <= MinScriptLen
        THEN /\ Contains(prompt, Marker)
             /\ Strip(script) # <<>> => ~Contains(prompt, script)
        ELSE /\ Contains(prompt, script)
             /\ ~Contains(prompt, Marker)

\* C9 amended: a script of trimmed length <= 10 gives the one fixed
\* blind-audit prompt, with the marker in the script slot and nothing of
\* the script injected; a longer one gives the prompt with the script as
\* given in the slot, and that prompt holds the marker only if the script
\* itself does.
C9_SlotHoldsMarkerOrScript ==
    ppc = "built" =>
        IF Len(Strip(script)) <= MinScriptLen
        THEN /\ prompt = PromptPrefix \o Marker \o PromptSuffix
             /\ Contains(prompt, Marker)
        ELSE /\ prompt = PromptPrefix \o script \o PromptSuffix
             /\ Contains(prompt, script)
             /\ Contains(prompt, Marker) => Contains(script, Marker)

\* A script longer than 10 characters only because of its blanks.
C9_Witness ==
    /\ ppc = "built"
    /\ Len(Strip(script)) = MinScriptLen
    /\ Len(script) > MinScriptLen
    /\ Contains(prompt, Marker)

\* The expected fields that some object of the response has, in the fixed
\* order of the five fields.
RECURSIVE Filter(_, _)
Filter(s, keep) ==
    IF s = <<>> THEN <<>>
    ELSE (IF Head(s) \in keep THEN <<Head(s)>> ELSE <<>>) \o Filter(Tail(s), keep)

PresentExpected(items) ==
    Filter(ExpectedFields,
           UNION {{items[i][k][1] : k \in 1..Len(items[i])} : i \in 1..Len(items)})

\* C10: after a run that parsed an array of N >= 1 objects, the table and
\* the CSV both hold exactly the N rows in response order, under the same
\* columns, which are the expected fields present in the response in the
\* order timestamp, severity, category, issue_description, suggested_fix.
C10_TableAndCsv ==
    (RunEnded /\ wrote /\ failure.origin # "delete"
              /\ Len(response.json.items) >= 1) =>
        LET items == response.json.items
            cols == PresentExpected(items)
        IN  /\ page.kind = "table"
            /\ page.columns = cols
            /\ Len(page.rows) = Len(items)
            /\ \A i \in 1..Len(items) : \A j \in 1..Len(cols) :
                  page.rows[i][j] = Lookup(items[i], cols[j])
            /\ Len(page.csv) = Len(items) + 1
            /\ page.csv[1] = cols

=============================================================================
